---- MODULE Spec2Model ----
(***************************************************************************)
(* The WebRTC voice chat of the game client (class VoiceChat): the         *)
(* registry of peer connections, the offer/answer/ice negotiation driven   *)
(* by connectToPeer and handleSignal, the proximity resolver               *)
(* updateNearbyPeers, and teardown by disconnectPeer and disable.          *)
(*                                                                         *)
(* Several VoiceChat instances run side by side and exchange signalling    *)
(* envelopes through a transport that may reorder and duplicate them.      *)
(* Every asynchronous step of the class (an await on a method of an        *)
(* RTCPeerConnection) is a pending operation in that connection's          *)
(* operations chain; the operation takes effect, and the code after the    *)
(* await runs, in one later step (ExecHead).                               *)
(*                                                                         *)
(* Next to it stands one bot of the shared bot logic: its timers, which    *)
(* updateBot advances, and the gates shouldBotSing and shouldBotSpeak.     *)
(***************************************************************************)
EXTENDS Integers, Sequences, FiniteSets, TLC

\* ------------------------------------------------------------------ bounds
\* connections ever created, over all instances
MaxPcs == 3
\* operations pending at one time, over all connections
MaxPending == 2
\* the largest distance and maxDistance updateSpatialAudio is called with
MaxDistance == 4
\* VAD loops of one instance told apart: a loop started while MaxLoops are
\* scheduled is not counted
MaxLoops == 2
\* the value up to which updateBot runs the timers of the bot
MaxTimer == 502

\* the VoiceChat instances of the run, and the peer ids they may name
Instances == {1, 2}
PeerIds == {1, 2}

VARIABLES
    enabled,        \* [Instances -> BOOLEAN]        this.enabled
    localStream,    \* [Instances -> BOOLEAN]        this.localStream !== null
    audioContext,   \* [Instances -> BOOLEAN]        this.audioContext !== null
    analyser,       \* [Instances -> BOOLEAN]        this.analyser !== null
    trackEnabled,   \* [Instances -> BOOLEAN]        track.enabled of the audio
                    \*   tracks of this.localStream (FALSE when there is none)
    isPTTActive,    \* [Instances -> BOOLEAN]        this.isPTTActive
    isSpeaking,     \* [Instances -> BOOLEAN]        this.isSpeaking
    ptt,            \* [Instances -> BOOLEAN]        this.settings.ptt is truthy
    vadLoops,       \* [Instances -> 0..MaxLoops]    the VAD loops (closures check
                    \*   of startVAD) that have their next frame scheduled
    signalSender,   \* [Instances -> "none", "relay" or "sink"]  this.signalSender:
                    \*   null, a sender that relays to the other instance, or a
                    \*   sender whose envelopes leave the modelled instances
    userId,         \* [Instances -> 0 or the id]    this.userId ('' is 0)
    peers,          \* [Instances -> [PeerIds -> connection id, 0 = no entry]]
    gains,          \* [Instances -> SUBSET PeerIds] keys of this.gains
    gainTarget,     \* [Instances -> [PeerIds -> 0..FullGain]] the value the gain
                    \*   node of the peer is set or ramping to, in hundredths
                    \*   (0 when the peer has no gain node)
    audioElements,  \* [Instances -> SUBSET PeerIds] keys of this.audioElements
    liveAudio,      \* [Instances -> [PeerIds -> Nat]] audio elements created for
                    \*   the peer whose srcObject is still set
    pcs,            \* sequence of every RTCPeerConnection ever created
    net,            \* envelopes handed to the transport and not yet delivered
    last,           \* the operation that made the last step, and its outcome
    bot,            \* a bot of the population (createBot): its actionTimer and
                    \*   thinkTimer
    botLog          \* what the caller of the bot functions has seen: the
                    \*   updateBot calls made since resetBotActionTimer and since
                    \*   resetBotThinkTimer (since createBot before the first
                    \*   reset), and what the gate returned when the last step
                    \*   was a call of shouldBotSing or shouldBotSpeak

voiceVars == <<enabled, localStream, audioContext, analyser, trackEnabled,
               isPTTActive, isSpeaking, ptt, vadLoops, signalSender, userId, peers,
               gains, gainTarget, audioElements, liveAudio, pcs, net, last>>
botVars == <<bot, botLog>>
vars == <<voiceVars, botVars>>

audioVars == <<gains, gainTarget, audioElements, liveAudio>>
captureVars == <<analyser, trackEnabled, isPTTActive, isSpeaking, ptt, vadLoops>>
setupVars == <<enabled, localStream, audioContext, signalSender, userId, captureVars>>

\* ------------------------------------------------------------ connections
NoPeers == [p \in PeerIds |-> 0]

\* new RTCPeerConnection(...) with the local tracks attached and the first
\* operation its maker awaits.  local / remote: a local / remote description
\* was applied.
NewPc(u, p, firstOp) ==
    [owner |-> u, peer |-> p, sig |-> "stable", local |-> FALSE, remote |-> FALSE,
     tracks |-> localStream[u], chain |-> <<firstOp>>]

Op(kind, re, tracks) == [kind |-> kind, re |-> re, tracks |-> tracks]

Envelope(from, to, type, pc, re, tracks) ==
    [from |-> from, to |-> to, type |-> type, pc |-> pc, re |-> re, tracks |-> tracks]

Sent(to, type) == [to |-> to, type |-> type]

\* the outcome of a step: how the operation ended ("rejected": an exception or a
\* rejected promise reached its caller; "caught": an error was caught inside)
\* and the envelopes it gave the sender; calls: the callbacks of the embedding
\* code it invoked
Last(res, sent) == [res |-> res, sent |-> sent, calls |-> <<>>]

RECURSIVE SumLen(_, _)
SumLen(seq, n) == IF n = 0 THEN 0 ELSE Len(seq[n].chain) + SumLen(seq, n - 1)

\* the operations pending now
Pending == SumLen(pcs, Len(pcs))

IsOpen(k) == pcs[k].sig # "closed"

\* createBot (part_007, lines 33-49): the timers of a new bot; its position,
\* velocity and looks are not read by the gates
CreateBot == [actionTimer |-> 0, thinkTimer |-> 0]

Init ==
    /\ enabled = [u \in Instances |-> FALSE]
    /\ localStream = [u \in Instances |-> FALSE]
    /\ audioContext = [u \in Instances |-> FALSE]
    /\ analyser = [u \in Instances |-> FALSE]
    /\ trackEnabled = [u \in Instances |-> FALSE]
    /\ isPTTActive = [u \in Instances |-> FALSE]
    /\ isSpeaking = [u \in Instances |-> FALSE]
    /\ ptt = [u \in Instances |-> FALSE]
    /\ vadLoops = [u \in Instances |-> 0]
    /\ signalSender = [u \in Instances |-> "none"]
    /\ userId = [u \in Instances |-> 0]
    /\ peers = [u \in Instances |-> NoPeers]
    /\ gains = [u \in Instances |-> {}]
    /\ gainTarget = [u \in Instances |-> [p \in PeerIds |-> 0]]
    /\ audioElements = [u \in Instances |-> {}]
    /\ liveAudio = [u \in Instances |-> [p \in PeerIds |-> 0]]
    /\ pcs = <<>>
    /\ net = {}
    /\ last = Last("ok", <<>>)
    /\ bot = CreateBot
    /\ botLog = [sinceAction |-> 0, sinceThink |-> 0, ret |-> FALSE]

\* ------------------------------------------------------------------ setup
SetUserId(u) ==
    /\ userId' = [userId EXCEPT ![u] = u]
    /\ last' = Last("ok", <<>>)
    /\ UNCHANGED <<botVars, enabled, localStream, audioContext, captureVars, signalSender,
                   peers, audioVars, pcs, net>>

SetSignalSender(u, sender) ==
    /\ signalSender' = [signalSender EXCEPT ![u] = sender]
    /\ last' = Last("ok", <<>>)
    /\ UNCHANGED <<botVars, enabled, localStream, audioContext, captureVars, userId, peers,
                   audioVars, pcs, net>>

\* init() once getUserMedia has resolved, every later step succeeding: the
\* stream, the audio context and the analyser are kept, the tracks are gated by
\* the push-to-talk setting, voice is enabled and startVAD() schedules one more
\* VAD loop (line 53; startVAD does not look for a loop already scheduled, and
\* nothing cancels a scheduled frame)
InitOk(u) ==
    /\ localStream' = [localStream EXCEPT ![u] = TRUE]
    /\ audioContext' = [audioContext EXCEPT ![u] = TRUE]
    /\ analyser' = [analyser EXCEPT ![u] = TRUE]
    /\ trackEnabled' = [trackEnabled EXCEPT ![u] = ~ptt[u]]
    /\ enabled' = [enabled EXCEPT ![u] = TRUE]
    /\ vadLoops' = [vadLoops EXCEPT ![u] = IF @ < MaxLoops THEN @ + 1 ELSE @]
    /\ last' = Last("ok", <<>>)
    /\ UNCHANGED <<botVars, isPTTActive, isSpeaking, ptt, signalSender, userId, peers,
                   audioVars, pcs, net>>

\* the steps of init() that may fail: the capture request, the construction
\* of the audio context, and the analysis path built on it
InitSteps == {"getUserMedia", "AudioContext", "analysisPath"}

\* init() once getUserMedia has settled, failing at step `at`: what was assigned
\* before the failure stays assigned (a new stream has its tracks enabled), the
\* exception is caught and false is returned
InitFails(u, at) ==
    /\ at \in InitSteps
    /\ localStream' = [localStream EXCEPT ![u] = @ \/ at # "getUserMedia"]
    /\ trackEnabled' = [trackEnabled EXCEPT ![u] = @ \/ at # "getUserMedia"]
    /\ audioContext' = [audioContext EXCEPT ![u] = @ \/ at = "analysisPath"]
    /\ last' = Last("caught", <<>>)
    /\ UNCHANGED <<botVars, enabled, analyser, isPTTActive, isSpeaking, ptt, vadLoops,
                   signalSender, userId, peers, audioVars, pcs, net>>

SetPTTFlagOnly(u, active) ==
    /\ isPTTActive' = [isPTTActive EXCEPT ![u] = active]
    /\ last' = Last("ok", <<>>)
    /\ UNCHANGED <<botVars, enabled, localStream, audioContext, analyser, trackEnabled,
                   isSpeaking, ptt, vadLoops, signalSender, userId, peers,
                   audioVars, pcs, net>>

\* lines 90-97
SetPTT(u, active) ==
    /\ isPTTActive' = [isPTTActive EXCEPT ![u] = active]
    /\ trackEnabled' = [trackEnabled EXCEPT ![u] = IF localStream[u] THEN active ELSE @]
    /\ last' = Last("ok", <<>>)
    /\ UNCHANGED <<botVars, enabled, localStream, audioContext, analyser, isSpeaking, ptt,
                   vadLoops, signalSender, userId, peers, audioVars, pcs, net>>

\* the embedding code changes settings.ptt (the settings object the
\* constructor was given is shared with it)
SetSettingsPtt(u, on) ==
    /\ ptt' = [ptt EXCEPT ![u] = on]
    /\ last' = Last("ok", <<>>)
    /\ UNCHANGED <<botVars, enabled, localStream, audioContext, analyser, trackEnabled,
                   isPTTActive, isSpeaking, vadLoops, signalSender, userId, peers,
                   audioVars, pcs, net>>

\* line 17: the base threshold of the level, in thousandths of full scale
vadThreshold == 20

\* settings.sensitivity as the embedding code may set it, in tenths
Sensitivities == {0, 5, 10}

\* the level `avg` a frame may measure, in thousandths of full scale
Levels == {0, 15, 25, 35, 45}

\* line 70: settings.sensitivity || 0.5, in tenths (0 is falsy)
SensitivityOrDefault(s) == IF s = 0 THEN 5 ELSE s

\* line 70: vadThreshold * (1 + (1 - sensitivity)), in thousandths
Threshold(s) == (vadThreshold * (10 + (10 - SensitivityOrDefault(s)))) \div 10

SpeakingFullThreshold(u, avg, s, vad) ==
    IF ptt[u] THEN isPTTActive[u] /\ avg > Threshold(s)
    ELSE IF vad THEN avg > Threshold(s)
    ELSE isSpeaking[u]

\* lines 74-78: isSpeaking after the frame; in push-to-talk mode the gate must
\* be active and the threshold is halved, with settings.vad === false the
\* value is left as it was
Speaking(u, avg, s, vad) ==
    IF ptt[u] THEN isPTTActive[u] /\ 2 * avg > Threshold(s)
    ELSE IF vad THEN avg > Threshold(s)
    ELSE isSpeaking[u]

Call(fn, arg) == [fn |-> fn, arg |-> arg]

SpeakingCallsEveryFrame(was, now) == <<Call("onSpeakingChange", now)>>

\* lines 80-82
SpeakingCalls(was, now) ==
    IF now # was THEN <<Call("onSpeakingChange", now)>> ELSE <<>>

\* lines 65-86: the scheduled frame of one VAD loop runs, measuring level avg
\* with settings.sensitivity = s and settings.vad !== false = vad; the loop ends
\* when voice is disabled or there is no analyser, and otherwise evaluates the
\* frame and schedules its next one
VadTick(u, avg, s, vad) ==
    /\ vadLoops[u] > 0
    /\ IF ~(enabled[u] /\ analyser[u])
       THEN /\ vadLoops' = [vadLoops EXCEPT ![u] = @ - 1]
            /\ last' = Last("ok", <<>>)
            /\ UNCHANGED isSpeaking
       ELSE LET now == Speaking(u, avg, s, vad)
            IN /\ isSpeaking' = [isSpeaking EXCEPT ![u] = now]
               /\ last' = [Last("ok", <<>>) EXCEPT !.calls =
                               SpeakingCalls(isSpeaking[u], now)
                                   \o <<Call("onVolumeUpdate", avg)>>]
               /\ UNCHANGED vadLoops
    /\ UNCHANGED <<botVars, enabled, localStream, audioContext, analyser, trackEnabled,
                   isPTTActive, ptt, signalSender, userId, peers, audioVars, pcs, net>>

\* ---------------------------------------------------- RTCPeerConnection
\* Whether the platform accepts the operation in the signaling state (a closed
\* connection accepts nothing: InvalidStateError).  An offer applied as remote
\* description on top of a local offer rolls the local offer back.
Accepts(kind, sig) ==
    CASE kind = "createOffer"  -> sig \in {"stable", "have-local-offer"}
      [] kind = "sLDoffer"     -> sig \in {"stable", "have-local-offer"}
      [] kind = "sRDoffer"     -> sig \in {"stable", "have-remote-offer", "have-local-offer"}
      [] kind = "createAnswer" -> sig = "have-remote-offer"
      [] kind = "sLDanswer"    -> sig = "have-remote-offer"
      [] kind = "sRDanswer"    -> sig = "have-local-offer"
      [] OTHER                 -> FALSE

\* the signaling state after an accepted operation
NextSig(kind, sig) ==
    CASE kind = "sLDoffer"  -> "have-local-offer"
      [] kind = "sRDoffer"  -> "have-remote-offer"
      [] kind = "sLDanswer" -> "stable"
      [] kind = "sRDanswer" -> "stable"
      [] OTHER              -> sig

ClosePcNot(pc) == pc

\* pc.close(): the connection is closed for good.  An operation still pending
\* on it either never settles or is rejected when its turn comes (whatever it
\* was, so only the fact that one is pending is kept, and of the connection
\* only its owner)
ClosePc(pc) ==
    [pc EXCEPT !.sig = "closed", !.peer = 0, !.local = FALSE, !.remote = FALSE,
               !.tracks = FALSE,
               !.chain = IF @ = <<>> THEN <<>> ELSE <<Op("closed", 0, FALSE)>>]

CloseNone(seq, K) == seq

\* the connections K of `seq` are closed (disconnectPeer, disable)
CloseAll(seq, K) ==
    [k \in DOMAIN seq |-> IF k \in K THEN ClosePc(seq[k]) ELSE seq[k]]

\* ------------------------------------------------------------ audio sinks
\* pc.ontrack for peer p of instance u: the tracked element is released, a new
\* one is created and tracked, and a gain node is mapped when a context exists
OnTrackGains(u, p) ==
    IF audioContext[u] THEN [gains EXCEPT ![u] = @ \cup {p}] ELSE gains

\* line 126 (and the default of a new GainNode): gain.value = 1, in hundredths
FullGain == 100

OnTrackTargets(u, p) ==
    IF audioContext[u] THEN [gainTarget EXCEPT ![u][p] = FullGain] ELSE gainTarget

OnTrackElements(u, p) == [audioElements EXCEPT ![u] = @ \cup {p}]

OnTrackLiveNoRelease(u, p) == [liveAudio EXCEPT ![u][p] = @ + 1]

\* lines 112-121: the element tracked for p, if any, loses its stream; the new
\* element gets the arriving one
OnTrackLive(u, p) ==
    [liveAudio EXCEPT ![u][p] = (IF p \in audioElements[u] THEN @ - 1 ELSE @) + 1]

\* the cleanup of disconnectPeer / disable for the peers in P
ReleaseGains(u, P) == [gains EXCEPT ![u] = @ \ P]

ReleaseTargets(u, P) ==
    [gainTarget EXCEPT ![u] = [p \in PeerIds |-> IF p \in P THEN 0 ELSE @[p]]]

ReleaseElements(u, P) == [audioElements EXCEPT ![u] = @ \ P]

ReleaseLive(u, P) ==
    [liveAudio EXCEPT ![u] =
        [p \in PeerIds |-> IF p \in P /\ p \in audioElements[u] THEN @[p] - 1 ELSE @[p]]]

\* ---------------------------------------------------------- connectToPeer
ConnectGuardNoHas(u, p) == enabled[u]

ConnectGuardNoEnabled(u, p) == peers[u][p] = 0

\* line 100: the call goes on only if voice is enabled and p has no entry
ConnectGuard(u, p) == enabled[u] /\ peers[u][p] = 0

ConnectToPeerUnregistered(u, p) ==
    IF ~ConnectGuard(u, p)
    THEN /\ last' = Last("ok", <<>>)
         /\ UNCHANGED <<botVars, setupVars, peers, audioVars, pcs, net>>
    ELSE /\ Len(pcs) < MaxPcs /\ Pending < MaxPending
         /\ pcs' = Append(pcs, NewPc(u, p, Op("createOffer", 0, FALSE)))
         /\ last' = Last("ok", <<>>)
         /\ UNCHANGED <<botVars, setupVars, peers, audioVars, net>>

\* lines 99-141: up to the first await (createOffer is pending)
ConnectToPeer(u, p) ==
    IF ~ConnectGuard(u, p)
    THEN /\ last' = Last("ok", <<>>)
         /\ UNCHANGED <<botVars, setupVars, peers, audioVars, pcs, net>>
    ELSE /\ Len(pcs) < MaxPcs /\ Pending < MaxPending
         /\ pcs' = Append(pcs, NewPc(u, p, Op("createOffer", 0, FALSE)))
         /\ peers' = [peers EXCEPT ![u][p] = Len(pcs) + 1]
         /\ last' = Last("ok", <<>>)
         /\ UNCHANGED <<botVars, setupVars, audioVars, net>>

\* ----------------------------------------------------------- handleSignal
HandleOfferAlwaysNew(v, e) ==
    /\ Len(pcs) < MaxPcs /\ Pending < MaxPending
    /\ pcs' = Append(pcs, NewPc(v, e.from, Op("sRDoffer", e.pc, e.tracks)))
    /\ peers' = [peers EXCEPT ![v][e.from] = Len(pcs) + 1]

\* lines 156-198: an offer; the entry of `from` is reused or created
HandleOffer(v, e) ==
    LET k == peers[v][e.from]
        op == Op("sRDoffer", e.pc, e.tracks)
    IN IF k = 0
       THEN /\ Len(pcs) < MaxPcs /\ Pending < MaxPending
            /\ pcs' = Append(pcs, NewPc(v, e.from, op))
            /\ peers' = [peers EXCEPT ![v][e.from] = Len(pcs) + 1]
       ELSE /\ Pending < MaxPending
            /\ pcs' = [pcs EXCEPT ![k].chain = Append(@, op)]
            /\ UNCHANGED peers

AnswerGuardAny(v, from) == peers[v][from] # 0

AnswerGuardStable(v, from) ==
    peers[v][from] # 0 /\ pcs[peers[v][from]].sig = "stable"

\* line 207: the answer is applied if `from` has an entry that is not stable
AnswerGuard(v, from) == peers[v][from] # 0 /\ pcs[peers[v][from]].sig # "stable"

\* lines 205-209
HandleAnswer(v, e) ==
    LET k == peers[v][e.from]
    IN /\ UNCHANGED peers
       /\ IF AnswerGuard(v, e.from)
          THEN /\ Pending < MaxPending
               /\ pcs' = [pcs EXCEPT ![k].chain =
                              Append(@, Op("sRDanswer", e.pc, e.tracks))]
          ELSE UNCHANGED pcs

\* lines 210-219: addIceCandidate changes nothing the model keeps, its failure
\* (no remote description yet) is caught, and nothing follows the await, so
\* the call and its settling are one step
IceOutcomeUnknownThrows(v, from) ==
    IF peers[v][from] = 0 THEN "rejected"
    ELSE IF ~pcs[peers[v][from]].remote THEN "caught" ELSE "ok"

IceOutcomeUncaught(v, from) ==
    IF peers[v][from] # 0 /\ ~pcs[peers[v][from]].remote THEN "rejected" ELSE "ok"

\* lines 213-217: how the call ends; addIceCandidate rejects when the entry
\* has no remote description yet, and the rejection is caught and logged
IceOutcome(v, from) ==
    IF peers[v][from] # 0 /\ ~pcs[peers[v][from]].remote THEN "caught" ELSE "ok"

HandleIce(v, e) == UNCHANGED <<peers, pcs>>

\* lines 151-220, up to the first await
HandleSignal(v, e) ==
    /\ IF ~enabled[v]
       THEN UNCHANGED <<peers, pcs>>
       ELSE CASE e.type = "offer"  -> HandleOffer(v, e)
              [] e.type = "answer" -> HandleAnswer(v, e)
              [] e.type = "ice"    -> HandleIce(v, e)
    /\ last' = Last(IF enabled[v] /\ e.type = "ice" THEN IceOutcome(v, e.from) ELSE "ok",
                    <<>>)
    /\ UNCHANGED <<botVars, setupVars, audioVars>>

\* ------------------------------------------------------- the transport
\* signalSender(to, type, data): the envelope is handed to the transport, which
\* carries it to the instance it names (an envelope for a participant that runs
\* no instance here reaches nobody)
Transmit(msgs, e) ==
    IF signalSender[e.from] = "relay" /\ e.to \in Instances THEN msgs \cup {e} ELSE msgs

\* ------------------------------------------- the code after each await
\* the operation the handler awaits next, once `op` has succeeded
Follow(op) ==
    CASE op.kind = "createOffer"  -> <<Op("sLDoffer", 0, FALSE)>>
      [] op.kind = "sRDoffer"     -> <<Op("createAnswer", op.re, FALSE)>>
      [] op.kind = "createAnswer" -> <<Op("sLDanswer", op.re, FALSE)>>
      [] OTHER                    -> <<>>

SendsAlways(k, op) ==
    LET pc == pcs[k]
    IN CASE op.kind = "sLDoffer" ->
              <<Envelope(pc.owner, pc.peer, "offer", k, 0, pc.tracks)>>
         [] op.kind = "sLDanswer" ->
              <<Envelope(pc.owner, pc.peer, "answer", k, op.re, pc.tracks)>>
         [] OTHER -> <<>>

\* lines 144-146 and 202-204: what the handler sends once `op` has succeeded
Sends(k, op) ==
    LET pc == pcs[k]
    IN IF signalSender[pc.owner] = "none" THEN <<>>
       ELSE CASE op.kind = "sLDoffer" ->
                   <<Envelope(pc.owner, pc.peer, "offer", k, 0, pc.tracks)>>
              [] op.kind = "sLDanswer" ->
                   <<Envelope(pc.owner, pc.peer, "answer", k, op.re, pc.tracks)>>
              [] OTHER -> <<>>

\* the remote description brings the remote track: the track event fires
\* before the promise of setRemoteDescription resolves (fired again on a
\* renegotiation, the handler replaces the element it tracks by a new one)
FiresTrack(op) == op.kind \in {"sRDoffer", "sRDanswer"} /\ op.tracks

\* The operation at the head of connection k's chain settles and the handler
\* that awaits it runs to its next await or to its end.
ExecHead(k) ==
    /\ k \in DOMAIN pcs
    /\ pcs[k].chain # <<>>
    /\ LET pc == pcs[k]
           u == pc.owner
           p == pc.peer
           op == Head(pc.chain)
           rest == Tail(pc.chain)
       IN IF ~Accepts(op.kind, pc.sig)
          THEN \* the awaited promise rejects and the async function with it
               \* ("aborted": on a connection closed meanwhile)
               /\ pcs' = [pcs EXCEPT ![k].chain = rest]
               /\ last' = Last(IF IsOpen(k) THEN "rejected" ELSE "aborted", <<>>)
               /\ UNCHANGED <<audioVars, net>>
          ELSE LET out == Sends(k, op)
                   track == FiresTrack(op)
               IN /\ pcs' = [pcs EXCEPT ![k] =
                        [pc EXCEPT !.sig = NextSig(op.kind, pc.sig),
                                   !.local = @ \/ op.kind \in {"sLDoffer", "sLDanswer"},
                                   !.remote = @ \/ op.kind \in {"sRDoffer", "sRDanswer"},
                                   !.chain = rest \o Follow(op)]]
                  /\ net' = IF out = <<>> THEN net ELSE Transmit(net, out[1])
                  /\ gains' = IF track THEN OnTrackGains(u, p) ELSE gains
                  /\ gainTarget' = IF track THEN OnTrackTargets(u, p) ELSE gainTarget
                  /\ audioElements' = IF track THEN OnTrackElements(u, p) ELSE audioElements
                  /\ liveAudio' = IF track THEN OnTrackLive(u, p) ELSE liveAudio
                  /\ last' = Last("ok",
                                  [i \in DOMAIN out |-> Sent(out[i].to, out[i].type)])
    /\ UNCHANGED <<botVars, setupVars, peers>>

\* lines 133-137 and 189-193: the connection gathered a local candidate
OnIceCandidate(k) ==
    /\ k \in DOMAIN pcs
    /\ IsOpen(k) /\ pcs[k].local
    /\ LET pc == pcs[k]
           e == Envelope(pc.owner, pc.peer, "ice", k, 0, FALSE)
       IN IF signalSender[pc.owner] # "none"
          THEN /\ net' = Transmit(net, e)
               /\ last' = Last("ok", <<Sent(pc.peer, "ice")>>)
          ELSE /\ UNCHANGED net
               /\ last' = Last("ok", <<>>)
    /\ UNCHANGED <<botVars, setupVars, peers, audioVars, pcs>>

\* ------------------------------------------------------ updateSpatialAudio
\* settings.volume as the embedding code may set it, in tenths
Volumes == {0, 5, 10}

\* Math.pow(distance / maxDistance, 0.8) in tenths, rounded down: the largest
\* y with (y/10)^5 <= (distance/maxDistance)^4
Pow08(distance, maxDistance) ==
    LET top == (10 * (IF distance > maxDistance THEN distance ELSE maxDistance))
                   \div maxDistance
    IN CHOOSE y \in 0..top :
           /\ y ^ 5 * maxDistance ^ 4 <= 10 ^ 5 * distance ^ 4
           /\ \A z \in (y + 1)..top :
                  z ^ 5 * maxDistance ^ 4 > 10 ^ 5 * distance ^ 4

FalloffUnclamped(distance, maxDistance) == 10 - Pow08(distance, maxDistance)

\* line 226: Math.max(0, 1 - Math.pow(distance / maxDistance, 0.8)), in tenths
Falloff(distance, maxDistance) ==
    LET f == 10 - Pow08(distance, maxDistance)
    IN IF f > 0 THEN f ELSE 0

\* line 227: settings.volume || 0.7, in tenths (0 is falsy)
VolumeOrDefault(v) == IF v = 0 THEN 7 ELSE v

\* lines 226-227: the target volume, in hundredths
Volume(distance, maxDistance, v) == Falloff(distance, maxDistance) * VolumeOrDefault(v)

\* the target volume for every call of the run
VolumeOf ==
    [distance \in 0..MaxDistance, maxDistance \in 1..MaxDistance, v \in Volumes |->
        Volume(distance, maxDistance, v)]

\* lines 222-230, called with settings.volume = v
UpdateSpatialAudio(u, p, distance, maxDistance, v) ==
    /\ gainTarget' = IF p \in gains[u] /\ audioContext[u]
                     THEN [gainTarget EXCEPT ![u][p] = VolumeOf[distance, maxDistance, v]]
                     ELSE gainTarget
    /\ last' = Last("ok", <<>>)
    /\ UNCHANGED <<botVars, setupVars, peers, gains, audioElements, liveAudio, pcs, net>>

\* ----------------------------------------------------------- disconnectPeer
DisconnectPeerKeepsGain(u, p) ==
    /\ pcs' = CloseAll(pcs, {peers[u][p]} \ {0})
    /\ peers' = [peers EXCEPT ![u][p] = 0]
    /\ audioElements' = ReleaseElements(u, {p})
    /\ liveAudio' = ReleaseLive(u, {p})
    /\ last' = Last("ok", <<>>)
    /\ UNCHANGED <<botVars, setupVars, gains, gainTarget, net>>

\* lines 232-247
DisconnectPeer(u, p) ==
    /\ pcs' = CloseAll(pcs, {peers[u][p]} \ {0})
    /\ peers' = [peers EXCEPT ![u][p] = 0]
    /\ gains' = ReleaseGains(u, {p})
    /\ gainTarget' = ReleaseTargets(u, {p})
    /\ audioElements' = ReleaseElements(u, {p})
    /\ liveAudio' = ReleaseLive(u, {p})
    /\ last' = Last("ok", <<>>)
    /\ UNCHANGED <<botVars, setupVars, net>>

\* -------------------------------------------------------- updateNearbyPeers
ConnectTargetsNoHas(u, S) == {p \in S : p # userId[u]}

ConnectTargetsWithSelf(u, S) == {p \in S : peers[u][p] = 0}

\* lines 257-263: the ids connectToPeer is called for
ConnectTargets(u, S) == {p \in S : p # userId[u] /\ peers[u][p] = 0}

DisconnectTargetsInverted(reg, S) == {p \in PeerIds : reg[p] # 0 /\ p \in S}

\* lines 266-271: the ids disconnectPeer is called for, given the Registry
\* as the first loop left it
DisconnectTargets(reg, S) == {p \in PeerIds : reg[p] # 0 /\ p \notin S}

\* the calls of the first loop that get past connectToPeer's own guard
Created(u, S) == {p \in ConnectTargets(u, S) : ConnectGuard(u, p)}

\* the connectToPeer calls of the first loop, each up to its first await
RECURSIVE ConnectAll(_, _, _, _)
ConnectAll(seq, reg, u, T) ==
    IF T = {} THEN [pcs |-> seq, reg |-> reg]
    ELSE LET p == CHOOSE x \in T : \A y \in T : x <= y
         IN ConnectAll(Append(seq, NewPc(u, p, Op("createOffer", 0, FALSE))),
                       [reg EXCEPT ![p] = Len(seq) + 1], u, T \ {p})

\* lines 253-272
UpdateNearbyPeers(u, S) ==
    IF ~enabled[u]
    THEN /\ last' = Last("ok", <<>>)
         /\ UNCHANGED <<botVars, setupVars, peers, audioVars, pcs, net>>
    ELSE LET T == Created(u, S)
             c == ConnectAll(pcs, peers[u], u, T)
             D == DisconnectTargets(c.reg, S)
         IN /\ UNCHANGED <<botVars, setupVars, net>>
            /\ last' = Last("ok", <<>>)
            /\ Len(pcs) + Cardinality(T) <= MaxPcs
            /\ Pending + Cardinality(T) <= MaxPending
            /\ peers' = [peers EXCEPT ![u] =
                            [p \in PeerIds |-> IF p \in D THEN 0 ELSE c.reg[p]]]
            /\ gains' = ReleaseGains(u, D)
            /\ gainTarget' = ReleaseTargets(u, D)
            /\ audioElements' = ReleaseElements(u, D)
            /\ liveAudio' = ReleaseLive(u, D)
            /\ pcs' = CloseAll(c.pcs, {c.reg[p] : p \in D})

\* -------------------------------------------------------- getConnectedPeers
\* lines 277-279: the keys of the Registry
GetConnectedPeers(u) == {p \in PeerIds : peers[u][p] # 0}

\* ------------------------------------------------------------------ disable
DisableKeepsAudio(u) ==
    /\ enabled' = [enabled EXCEPT ![u] = FALSE]
    /\ localStream' = [localStream EXCEPT ![u] = FALSE]
    /\ pcs' = CloseAll(pcs, {peers[u][p] : p \in PeerIds} \ {0})
    /\ peers' = [peers EXCEPT ![u] = NoPeers]
    /\ gains' = [gains EXCEPT ![u] = {}]
    /\ gainTarget' = ReleaseTargets(u, PeerIds)
    /\ trackEnabled' = [trackEnabled EXCEPT ![u] = FALSE]
    /\ isSpeaking' = [isSpeaking EXCEPT ![u] = FALSE]
    /\ last' = Last("ok", <<>>)
    /\ UNCHANGED <<botVars, audioContext, analyser, isPTTActive, ptt, vadLoops,
                   signalSender, userId, audioElements, liveAudio, net>>

\* lines 281-300
Disable(u) ==
    /\ enabled' = [enabled EXCEPT ![u] = FALSE]
    /\ localStream' = [localStream EXCEPT ![u] = FALSE]
    /\ pcs' = CloseAll(pcs, {peers[u][p] : p \in PeerIds} \ {0})
    /\ peers' = [peers EXCEPT ![u] = NoPeers]
    /\ gains' = [gains EXCEPT ![u] = {}]
    /\ gainTarget' = ReleaseTargets(u, PeerIds)
    /\ audioElements' = [audioElements EXCEPT ![u] = {}]
    /\ liveAudio' = ReleaseLive(u, PeerIds)
    /\ trackEnabled' = [trackEnabled EXCEPT ![u] = FALSE]
    /\ isSpeaking' = [isSpeaking EXCEPT ![u] = FALSE]
    /\ last' = Last("ok", <<>>)
    /\ UNCHANGED <<botVars, audioContext, analyser, isPTTActive, ptt, vadLoops,
                   signalSender, userId, net>>

\* ------------------------------------------------------------ specification
\* the envelopes handleSignal may be called with: any type, from any peer
Inputs(v) ==
    {Envelope(from, v, type, 0, 0, TRUE) :
        from \in PeerIds, type \in {"offer", "answer", "ice"}}

\* handleSignal called with an envelope from outside the modelled instances
Receive(v, e) == HandleSignal(v, e) /\ UNCHANGED net

\* the transport hands envelope e to the instance it names, and keeps a copy
\* when it delivers it twice
Deliver(v, e, dup) ==
    /\ e \in net /\ e.to = v
    /\ net' = IF dup THEN net ELSE net \ {e}
    /\ HandleSignal(v, e)

\* ------------------------------------------------------------------- bots
\* the values of Math.random() the gates are called with, in thousandths
Rolls == {0, 2, 5}

shouldBotSingFrom300(b, roll) == b.actionTimer >= 300 /\ roll < 5

\* shouldBotSing (lines 86-88): actionTimer > 300 && Math.random() < 0.005
shouldBotSing(b, roll) == b.actionTimer > 300 /\ roll < 5

\* shouldBotSpeak (lines 92-94): thinkTimer > 500 && Math.random() < 0.002
shouldBotSpeak(b, roll) == b.thinkTimer > 500 /\ roll < 2

\* updateBot (lines 53-82): every timer goes up by one (the movement of the
\* bot that follows does not touch them)
UpdateBot ==
    /\ bot.actionTimer < MaxTimer /\ bot.thinkTimer < MaxTimer
    /\ bot' = [actionTimer |-> bot.actionTimer + 1, thinkTimer |-> bot.thinkTimer + 1]
    /\ botLog' = [sinceAction |-> botLog.sinceAction + 1,
                  sinceThink |-> botLog.sinceThink + 1, ret |-> FALSE]
    /\ UNCHANGED voiceVars

\* a call of shouldBotSing(bot) in which Math.random() returns roll
ShouldBotSingCall(roll) ==
    /\ botLog' = [botLog EXCEPT !.ret = shouldBotSing(bot, roll)]
    /\ UNCHANGED <<voiceVars, bot>>

\* a call of shouldBotSpeak(bot) in which Math.random() returns roll
ShouldBotSpeakCall(roll) ==
    /\ botLog' = [botLog EXCEPT !.ret = shouldBotSpeak(bot, roll)]
    /\ UNCHANGED <<voiceVars, bot>>

\* resetBotActionTimer (lines 104-106)
ResetBotActionTimer ==
    /\ bot' = [bot EXCEPT !.actionTimer = 0]
    /\ botLog' = [botLog EXCEPT !.sinceAction = 0, !.ret = FALSE]
    /\ UNCHANGED voiceVars

\* resetBotThinkTimer (lines 110-112)
ResetBotThinkTimer ==
    /\ bot' = [bot EXCEPT !.thinkTimer = 0]
    /\ botLog' = [botLog EXCEPT !.sinceThink = 0, !.ret = FALSE]
    /\ UNCHANGED voiceVars

\* One instance with its whole interface open to any call and any envelope;
\* what it sends leaves the model.
Self == CHOOSE u \in Instances : \A w \in Instances : u <= w

Next ==
    \/ SetUserId(Self)
    \/ SetSignalSender(Self, "sink")
    \/ InitOk(Self)
    \/ \E p \in PeerIds : ConnectToPeer(Self, p)
    \/ \E p \in PeerIds : DisconnectPeer(Self, p)
    \/ \E S \in SUBSET PeerIds : UpdateNearbyPeers(Self, S)
    \/ Disable(Self)
    \/ \E e \in Inputs(Self) : Receive(Self, e)
    \/ \E k \in 1..MaxPcs : ExecHead(k)
    \/ \E k \in 1..MaxPcs : OnIceCandidate(k)

Spec == Init /\ [][Next]_vars

\* One instance with its whole interface open, whose init may also fail at any
\* step.
NextLifecycle ==
    \/ Next
    \/ \E at \in InitSteps : InitFails(Self, at)

SpecLifecycle == Init /\ [][NextLifecycle]_vars

\* Two instances that talk to each other through the relaying transport.
NextPair ==
    \/ \E u \in Instances : SetSignalSender(u, "relay")
    \/ \E u \in Instances : InitOk(u)
    \/ \E u \in Instances : \E p \in Instances \ {u} : ConnectToPeer(u, p)
    \/ \E v \in Instances, e \in net, dup \in BOOLEAN : Deliver(v, e, dup)
    \/ \E k \in 1..MaxPcs : ExecHead(k)
    \/ \E k \in 1..MaxPcs : OnIceCandidate(k)

SpecPair == Init /\ [][NextPair]_vars

\* Two instances, one of which connects to the other, drops it and connects
\* again, as when the other one leaves the range and comes back; the other
\* one answers.
NextReconnect ==
    \/ \E u \in Instances : SetSignalSender(u, "relay")
    \/ \E u \in Instances : InitOk(u)
    \/ \E p \in Instances \ {Self} : ConnectToPeer(Self, p)
    \/ \E p \in Instances \ {Self} : DisconnectPeer(Self, p)
    \/ \E v \in Instances, e \in net, dup \in BOOLEAN : Deliver(v, e, dup)
    \/ \E k \in 1..MaxPcs : ExecHead(k)

SpecReconnect == Init /\ [][NextReconnect]_vars

\* Two instances that connect to each other over a transport that delivers
\* every envelope once; neither disconnects nor disables.
NextGlare ==
    \/ \E u \in Instances : SetSignalSender(u, "relay")
    \/ \E u \in Instances : InitOk(u)
    \/ \E u \in Instances : \E p \in Instances \ {u} : ConnectToPeer(u, p)
    \/ \E v \in Instances, e \in net : Deliver(v, e, FALSE)
    \/ \E k \in 1..MaxPcs : ExecHead(k)

\* every pending operation of a connection settles, and every envelope the
\* transport holds is delivered
FairGlare ==
    /\ \A k \in 1..MaxPcs : WF_vars(ExecHead(k))
    /\ \A v \in Instances : WF_vars(\E e \in net : Deliver(v, e, FALSE))

SpecGlare == Init /\ [][NextGlare]_vars /\ FairGlare

\* One instance and its capture pipeline: init succeeding or failing at any
\* step, the push-to-talk gate, the VAD loop and disable, with connections
\* being made meanwhile.
NextCapture ==
    \/ InitOk(Self)
    \/ \E at \in InitSteps : InitFails(Self, at)
    \/ \E active \in BOOLEAN : SetPTT(Self, active)
    \/ \E on \in BOOLEAN : SetSettingsPtt(Self, on)
    \/ \E avg \in Levels, s \in Sensitivities, vad \in BOOLEAN :
           VadTick(Self, avg, s, vad)
    \/ Disable(Self)
    \/ \E p \in PeerIds : ConnectToPeer(Self, p)
    \/ \E k \in 1..MaxPcs : ExecHead(k)

SpecCapture == Init /\ [][NextCapture]_vars

\* One instance and its VAD loop alone: voice switched on and off, the
\* push-to-talk mode and gate, and the frames of the loop.
NextVad ==
    \/ InitOk(Self)
    \/ \E active \in BOOLEAN : SetPTT(Self, active)
    \/ \E on \in BOOLEAN : SetSettingsPtt(Self, on)
    \/ \E avg \in Levels, s \in Sensitivities, vad \in BOOLEAN :
           VadTick(Self, avg, s, vad)
    \/ Disable(Self)

SpecVad == Init /\ [][NextVad]_vars

\* One bot in the hands of the population loop: it is updated every tick, asked
\* whether it should sing or speak, and has its timers reset.
NextBot ==
    \/ UpdateBot
    \/ \E roll \in Rolls : ShouldBotSingCall(roll)
    \/ \E roll \in Rolls : ShouldBotSpeakCall(roll)
    \/ ResetBotActionTimer
    \/ ResetBotThinkTimer

SpecBot == Init /\ [][NextBot]_vars

\* One instance that the other participants call while the game moves them:
\* the distances are fed to updateSpatialAudio.
NextSpatial ==
    \/ InitOk(Self)
    \/ \E e \in Inputs(Self) : e.type = "offer" /\ e.from # Self /\ Receive(Self, e)
    \/ \E k \in 1..MaxPcs : ExecHead(k)
    \/ \E p \in PeerIds, distance \in 0..MaxDistance, maxDistance \in 1..MaxDistance,
          v \in Volumes : UpdateSpatialAudio(Self, p, distance, maxDistance, v)

SpecSpatial == Init /\ [][NextSpatial]_vars

\* ================================================================== claims
\* the connections instance u holds or held for peer p that are not closed
OpenFor(u, p) ==
    {k \in DOMAIN pcs : pcs[k].owner = u /\ pcs[k].peer = p /\ IsOpen(k)}

\* C1: whatever calls were made and whatever is still suspended, an instance
\* has at most one non-closed connection for a peer id, and that connection is
\* the one its Registry holds for the id.
C1_AtMostOneOpen ==
    \A u \in Instances, p \in PeerIds :
        /\ Cardinality(OpenFor(u, p)) <= 1
        /\ \A k \in OpenFor(u, p) : peers[u][p] = k

\* an open connection with two handlers suspended on it, next to a closed one
C1_Witness ==
    \E k, j \in DOMAIN pcs :
        /\ IsOpen(k) /\ Len(pcs[k].chain) >= 2
        /\ ~IsOpen(j) /\ pcs[j].owner = pcs[k].owner

\* what a settling step of connection k must do when the negotiation of C2 is
\* at that point; `needsSender` tells whether the answering side is supposed
\* to have a signal sender
C2_Settles(k, needsSender) ==
    LET pc == pcs[k]
        op == Head(pc.chain)
        offer == Envelope(pc.owner, pc.peer, "offer", k, 0, pc.tracks)
        answer == Envelope(pc.owner, pc.peer, "answer", k, op.re, pc.tracks)
    IN /\ (op.kind = "sLDoffer" /\ pc.sig = "stable" /\ signalSender[pc.owner] # "none")
            => /\ last'.sent = <<Sent(pc.peer, "offer")>>
               /\ net' = net \cup {offer}
       /\ (op.kind = "sLDanswer" /\ pc.sig = "have-remote-offer"
             /\ (needsSender => signalSender[pc.owner] # "none"))
            => /\ last'.sent = <<Sent(pc.peer, "answer")>>
               /\ net' = net \cup {answer}
       /\ op.kind \notin {"sLDoffer", "sLDanswer"} => (last'.sent = <<>> /\ net' = net)
       /\ (op.kind = "sRDanswer" /\ pc.sig = "have-local-offer")
            => pcs'[k].sig = "stable"

\* what the delivery of envelope e to instance v must do in the negotiation of
\* C2: nothing is sent yet; the offer is applied to the entry of its sender,
\* the answer to the entry that waits for it
C2_Delivers(v, e) ==
    LET k == peers'[v][e.from]
    IN /\ last'.sent = <<>>
       /\ (e.type = "offer" /\ enabled[v])
            => /\ k # 0
               /\ pcs'[k].chain # <<>>
               /\ pcs'[k].chain[Len(pcs'[k].chain)] = Op("sRDoffer", e.pc, e.tracks)
       /\ (e.type = "answer" /\ enabled[v] /\ peers[v][e.from] # 0
             /\ pcs[peers[v][e.from]].sig = "have-local-offer")
            => pcs'[k].chain = Append(pcs[k].chain, Op("sRDanswer", e.pc, e.tracks))

C2_Steps(needsSender) ==
    /\ \A k \in DOMAIN pcs : ExecHead(k) => C2_Settles(k, needsSender)
    /\ \A v \in Instances, e \in net, dup \in BOOLEAN :
           Deliver(v, e, dup) => C2_Delivers(v, e)

C3_DuplicateOffer ==
    [][ /\ \A e \in Inputs(Self) :
              (e.type = "offer" /\ enabled[Self] /\ Receive(Self, e)) =>
                  /\ peers'[Self][e.from] # 0
                  /\ OpenFor(Self, e.from)' = {peers'[Self][e.from]}
                  /\ peers[Self][e.from] # 0 =>
                        (peers' = peers /\ Len(pcs') = Len(pcs))
        /\ \A k \in DOMAIN pcs :
              ExecHead(k) => (peers' = peers /\ Len(pcs') = Len(pcs))
      ]_vars

\* the second offer came while the first was suspended: one connection, two
\* offers waiting to be applied to it
C3_Witness ==
    \E k \in DOMAIN pcs :
        /\ IsOpen(k) /\ peers[Self][pcs[k].peer] = k
        /\ Len(pcs[k].chain) = 2
        /\ \A i \in 1..2 : pcs[k].chain[i].kind = "sRDoffer"
        /\ OpenFor(Self, pcs[k].peer) = {k}

\* C4: updateNearbyPeers with a set that lacks B closes B's connection and
\* removes it from the Registry, whatever the negotiation was at; an answer
\* from a peer that has no entry changes no state.
C4_RangeExit ==
    [][ /\ \A S \in SUBSET PeerIds :
              UpdateNearbyPeers(Self, S) =>
                  \A B \in PeerIds \ S :
                      /\ peers'[Self][B] = 0
                      /\ OpenFor(Self, B)' = {}
                      /\ peers[Self][B] # 0 => pcs'[peers[Self][B]].sig = "closed"
        /\ \A e \in Inputs(Self) :
              (e.type = "answer" /\ peers[Self][e.from] = 0 /\ Receive(Self, e)) =>
                  /\ UNCHANGED <<setupVars, peers, audioVars, pcs, net>>
                  /\ last' = Last("ok", <<>>)
      ]_vars

\* the connection was closed while its offer was being made, and nothing is
\* left in the Registry for the answer to find
C4_Witness ==
    /\ enabled[Self] /\ peers[Self] = NoPeers
    /\ \E k \in DOMAIN pcs : ~IsOpen(k) /\ pcs[k].chain # <<>>

\* C5: an ice envelope, whether its sender has no entry or an entry without a
\* remote description, ends without an error reaching the caller and changes
\* nothing of the instance, so that whatever is processed later starts from the
\* state it would have started from without it.
C5_EarlyIce ==
    [][ \A e \in Inputs(Self) :
            (e.type = "ice" /\ Receive(Self, e)) =>
                /\ last'.res \in {"ok", "caught"}
                /\ last'.sent = <<>>
                /\ UNCHANGED <<setupVars, peers, audioVars, pcs, net>>
      ]_vars

\* the candidate came for a connection that waits for the answer: the add
\* failed and the failure was caught
C5_Witness ==
    /\ last.res = "caught"
    /\ \E k \in DOMAIN pcs :
           IsOpen(k) /\ pcs[k].sig = "have-local-offer" /\ ~pcs[k].remote
\* the Registry agrees with the nearby set S: updateNearbyPeers(S) would call
\* neither connectToPeer nor disconnectPeer
Synced(S) ==
    ConnectTargets(Self, S) = {} /\ DisconnectTargets(peers[Self], S) = {}

\* C6: with voice enabled, right after updateNearbyPeers(S) a second call with
\* the same S has no id to connect and none to disconnect, the connections of
\* the first call still waiting for their offers or not; and a call that has
\* none creates and closes no connection and sends no envelope.
C6_IdempotentSync ==
    [][ \A S \in SUBSET PeerIds :
            (enabled[Self] /\ UpdateNearbyPeers(Self, S)) =>
                /\ Synced(S)'
                /\ Synced(S) =>
                      /\ UNCHANGED <<setupVars, peers, audioVars, pcs, net>>
                      /\ last'.sent = <<>>
      ]_vars

\* the call connected every peer id and none of the calls it started has
\* resumed
C6_Witness ==
    /\ enabled[Self] /\ Synced(PeerIds)
    /\ Len(pcs) = Cardinality(PeerIds)
    /\ \A k \in DOMAIN pcs :
           IsOpen(k) /\ pcs[k].chain = <<Op("createOffer", 0, FALSE)>>

\* C7: right after disable(), whatever the state before it, the Registry is
\* empty, the gain map is empty, no playback element is tracked, none that was
\* created still has a stream attached, and every connection the instance
\* owns is closed.
C7_Teardown ==
    [][ Disable(Self) =>
            /\ peers'[Self] = NoPeers
            /\ gains'[Self] = {}
            /\ audioElements'[Self] = {}
            /\ \A p \in PeerIds : liveAudio'[Self][p] = 0
            /\ \A k \in DOMAIN pcs' : pcs'[k].owner = Self => pcs'[k].sig = "closed"
      ]_vars

\* disabled after voice had been set up, with two connections closed, one of
\* them while a handler was suspended on it
C7_Witness ==
    /\ ~enabled[Self] /\ audioContext[Self] /\ ~localStream[Self]
    /\ Len(pcs) >= 2
    /\ \A k \in DOMAIN pcs : ~IsOpen(k)
    /\ \E k \in DOMAIN pcs : pcs[k].chain # <<>>

\* C8: no operation ends in an exception or a rejected promise that reaches
\* its caller (stated here for the connections that are still open; the
\* handlers that resume on a closed connection are left aside).
C8_ErrorContainment == last.res # "rejected"

\* connection k is the one the Registry of its owner holds for its peer
Registered(k) == IsOpen(k) /\ peers[pcs[k].owner][pcs[k].peer] = k

\* C9: a handler that resumes on a connection that disconnectPeer or disable
\* took out of the Registry sends no envelope and changes neither the
\* Registry nor the gain nodes nor the playback elements; and the callbacks
\* of a connection fire only while the Registry holds it.
C9_Cancellation ==
    [][ \A k \in DOMAIN pcs :
            /\ (~Registered(k) /\ ExecHead(k)) =>
                   /\ last'.sent = <<>>
                   /\ UNCHANGED <<peers, gains, audioElements, liveAudio, net>>
            /\ OnIceCandidate(k) => Registered(k)
      ]_vars

\* a handler resumed on a connection that was closed under it
C9_Witness == last.res = "aborted"

\* C10: each side only ever has one connection object, the one its Registry
\* holds for the other side: the offer that arrives is applied to it.
C10_GlareNoDuplicate ==
    \A u \in Instances :
        /\ Cardinality({k \in DOMAIN pcs : pcs[k].owner = u}) <= 1
        /\ \A k \in DOMAIN pcs : pcs[k].owner = u => peers[u][pcs[k].peer] = k

\* both sides made an offer of their own (only connectToPeer makes one, and
\* only on a connection it created), both offers were delivered, and each side
\* ended with its one connection stable, a remote description applied to it and
\* no handler suspended
C10_Witness ==
    /\ Len(pcs) = 2
    /\ pcs[1].owner # pcs[2].owner
    /\ \A u \in Instances : \E e \in net : e.type = "offer" /\ e.from = u
    /\ \A k \in DOMAIN pcs :
           pcs[k].sig = "stable" /\ pcs[k].remote /\ pcs[k].chain = <<>>

\* C11: an answer is applied only to an entry that exists and is not stable;
\* an answer for an entry that is stable changes nothing, sends nothing and
\* raises no error.
C11_AnswerGuard ==
    [][ \A e \in Inputs(Self) :
            (e.type = "answer" /\ Receive(Self, e)) =>
                LET k == peers[Self][e.from]
                IN /\ last' = Last("ok", <<>>)
                   /\ pcs' # pcs => (enabled[Self] /\ k # 0 /\ pcs[k].sig # "stable")
                   /\ (k # 0 /\ pcs[k].sig = "stable") =>
                          UNCHANGED <<setupVars, peers, audioVars, pcs, net>>
      ]_vars

\* the negotiation with a peer is over (both descriptions applied, stable, no
\* handler suspended): any answer from it now is a duplicate or a late one
C11_Witness ==
    \E p \in PeerIds :
        LET k == peers[Self][p]
        IN /\ enabled[Self] /\ k # 0
           /\ pcs[k].sig = "stable" /\ pcs[k].local /\ pcs[k].remote
           /\ pcs[k].chain = <<>>

\* C12: connectToPeer(p) while voice is disabled or while p has an entry, in
\* whatever negotiation state, creates nothing, sends nothing, raises nothing
\* and changes neither the Registry nor any connection.
C12_ConnectNoOp ==
    [][ \A p \in PeerIds :
            ((~enabled[Self] \/ peers[Self][p] # 0) /\ ConnectToPeer(Self, p)) =>
                /\ UNCHANGED <<setupVars, peers, audioVars, pcs, net>>
                /\ last' = Last("ok", <<>>)
      ]_vars

\* entries in two different negotiation states, one of them with handlers
\* suspended on it
C12_Witness ==
    /\ enabled[Self]
    /\ \A p \in PeerIds : peers[Self][p] # 0
    /\ \E p, q \in PeerIds :
           /\ pcs[peers[Self][p]].sig = "have-remote-offer"
           /\ pcs[peers[Self][p]].chain # <<>>
           /\ pcs[peers[Self][q]].sig = "have-local-offer"

\* C13: connectToPeer(p) that goes on has the new connection in the Registry
\* under p when it first suspends, and has sent nothing by then; an offer is
\* only ever sent for a connection the Registry holds; and an offer from p
\* that comes once the entry is there creates no connection.
C13_RegisteredBeforeSending ==
    [][ /\ \A p \in PeerIds :
              (ConnectGuard(Self, p) /\ ConnectToPeer(Self, p)) =>
                  /\ Len(pcs') = Len(pcs) + 1
                  /\ peers'[Self][p] = Len(pcs')
                  /\ pcs'[Len(pcs')].chain = <<Op("createOffer", 0, FALSE)>>
                  /\ last'.sent = <<>> /\ net' = net
        /\ \A k \in DOMAIN pcs :
              (ExecHead(k) /\ last'.sent # <<>> /\ last'.sent[1].type = "offer") =>
                  Registered(k)
        /\ \A e \in Inputs(Self) :
              (e.type = "offer" /\ peers[Self][e.from] # 0 /\ Receive(Self, e)) =>
                  (Len(pcs') = Len(pcs) /\ peers' = peers)
      ]_vars

\* the offer of p came while connectToPeer(p) was suspended at its first await
C13_Witness ==
    /\ Len(pcs) = 1 /\ IsOpen(1)
    /\ peers[Self][pcs[1].peer] = 1
    /\ Len(pcs[1].chain) = 2
    /\ pcs[1].chain[1].kind = "createOffer"
    /\ pcs[1].chain[2].kind = "sRDoffer"

\* C14: an answer or an ice envelope from a peer that has no entry creates
\* nothing, sends nothing, raises nothing and leaves all state as it was.
C14_UnknownPeer ==
    [][ \A e \in Inputs(Self) :
            (e.type \in {"answer", "ice"} /\ peers[Self][e.from] = 0
               /\ Receive(Self, e)) =>
                /\ UNCHANGED <<setupVars, peers, audioVars, pcs, net>>
                /\ last' = Last("ok", <<>>)
      ]_vars

\* one peer is unknown while another has a session with a gain node and a
\* playback element
C14_Witness ==
    /\ enabled[Self]
    /\ \E p, q \in PeerIds :
           /\ peers[Self][p] = 0
           /\ peers[Self][q] # 0
           /\ q \in gains[Self] /\ q \in audioElements[Self]
\* C15: disconnectPeer(p) closes the connection of p and takes p out of the
\* Registry, the gain map and the playback elements (the element it tracked is
\* released); the entries and the connections of the other peers stay as they
\* were; nothing is sent and nothing raised; and when p has no entry the call
\* changes nothing.
C15_DisconnectPeer ==
    [][ \A p \in PeerIds :
            DisconnectPeer(Self, p) =>
                /\ peers'[Self][p] = 0
                /\ p \notin gains'[Self] /\ p \notin audioElements'[Self]
                /\ liveAudio'[Self][p] = 0
                /\ peers[Self][p] # 0 => pcs'[peers[Self][p]].sig = "closed"
                /\ \A q \in PeerIds \ {p} :
                       /\ peers'[Self][q] = peers[Self][q]
                       /\ (q \in gains'[Self]) = (q \in gains[Self])
                       /\ (q \in audioElements'[Self]) = (q \in audioElements[Self])
                       /\ liveAudio'[Self][q] = liveAudio[Self][q]
                       /\ peers[Self][q] # 0 =>
                              pcs'[peers[Self][q]] = pcs[peers[Self][q]]
                /\ last' = Last("ok", <<>>)
                /\ UNCHANGED <<setupVars, net>>
                /\ peers[Self][p] = 0 => UNCHANGED <<peers, audioVars, pcs>>
      ]_vars

\* one peer was disconnected (its connection is closed, it has no entry, no
\* gain node, no element) while the other keeps its session with a gain node
\* and a playback element
C15_Witness ==
    /\ enabled[Self]
    /\ \E k \in DOMAIN pcs : ~IsOpen(k)
    /\ \E p, q \in PeerIds :
           /\ peers[Self][p] = 0 /\ p \notin gains[Self]
           /\ p \notin audioElements[Self] /\ liveAudio[Self][p] = 0
           /\ peers[Self][q] # 0
           /\ q \in gains[Self] /\ q \in audioElements[Self]
           /\ liveAudio[Self][q] = 1

\* C16: with voice enabled, when updateNearbyPeers(S) returns every id of S
\* but the local user id has an entry, every entry has its id in S, and the
\* local user id has no entry it did not have before.
C16_ProximityMembership ==
    [][ \A S \in SUBSET PeerIds :
            (enabled[Self] /\ UpdateNearbyPeers(Self, S)) =>
                /\ \A p \in S \ {userId[Self]} : peers'[Self][p] # 0
                /\ \A p \in PeerIds : peers'[Self][p] # 0 => p \in S
                /\ \A p \in PeerIds :
                       (p = userId[Self] /\ peers[Self][p] = 0) =>
                           peers'[Self][p] = 0
      ]_vars

\* the local user id is set, it has no entry, and the only connection is one
\* to the other peer that still waits for its offer to be made
C16_Witness ==
    /\ enabled[Self] /\ userId[Self] = Self
    /\ peers[Self][Self] = 0
    /\ Len(pcs) = 1 /\ IsOpen(1)
    /\ pcs[1].chain = <<Op("createOffer", 0, FALSE)>>
    /\ peers[Self][pcs[1].peer] = 1

\* connection k has made its offer and nothing came back
OfferSent(k) ==
    /\ Registered(k)
    /\ pcs[k].sig = "have-local-offer" /\ ~pcs[k].remote
    /\ pcs[k].chain = <<>>

\* C17: without a signal sender connectToPeer(p) still registers its
\* connection and sets its offer, sends nothing and raises nothing; and a
\* connection that has made its offer stays in the Registry as it is, with no
\* offer sent again for its peer, through every step but disconnectPeer of its
\* peer, updateNearbyPeers, disable and a signal from its peer.
C17_NoTimeoutNoRetry ==
    [][ /\ \A p \in PeerIds :
              (signalSender[Self] = "none" /\ ConnectGuard(Self, p)
                 /\ ConnectToPeer(Self, p)) =>
                  (peers'[Self][p] = Len(pcs') /\ last' = Last("ok", <<>>))
        /\ \A k \in DOMAIN pcs :
              (signalSender[pcs[k].owner] = "none" /\ pcs[k].chain # <<>>
                 /\ Head(pcs[k].chain).kind = "sLDoffer" /\ pcs[k].sig = "stable"
                 /\ ExecHead(k)) =>
                  /\ last' = Last("ok", <<>>) /\ net' = net
                  /\ pcs'[k].sig = "have-local-offer"
                  /\ peers' = peers
        /\ \A k \in DOMAIN pcs :
              OfferSent(k) =>
                  \/ /\ pcs'[k] = pcs[k]
                     /\ peers'[pcs[k].owner][pcs[k].peer] = k
                     /\ \A i \in DOMAIN last'.sent :
                            last'.sent[i] # Sent(pcs[k].peer, "offer")
                  \/ DisconnectPeer(Self, pcs[k].peer)
                  \/ Disable(Self)
                  \/ \E S \in SUBSET PeerIds : UpdateNearbyPeers(Self, S)
                  \/ \E e \in Inputs(Self) :
                         e.from = pcs[k].peer /\ Receive(Self, e)
      ]_vars

\* no signal sender was ever set, and a connection has made its offer
C17_Witness ==
    /\ signalSender[Self] = "none"
    /\ \E k \in DOMAIN pcs : OfferSent(k) /\ pcs[k].owner = Self
\* C18: disable() leaves voice disabled and capture inactive with its tracks
\* stopped, holds neither the audio context nor the analyser any more, and
\* leaves every connection of the instance closed.
C18_DisableTearsDown ==
    [][ Disable(Self) =>
            /\ ~enabled'[Self] /\ ~localStream'[Self] /\ ~trackEnabled'[Self]
            /\ ~audioContext'[Self] /\ ~analyser'[Self]
            /\ \A k \in DOMAIN pcs' : pcs'[k].owner = Self => pcs'[k].sig = "closed"
      ]_vars

\* C19: init() that fails, at whichever step, raises nothing and leaves
\* voice, the capture stream, the audio context, the analyser and the VAD loop
\* as they were before the call.
C19_FailedInitChangesNothing ==
    [][ \A at \in InitSteps :
            InitFails(Self, at) =>
                /\ last'.res \in {"ok", "caught"}
                /\ UNCHANGED <<enabled, localStream, trackEnabled, audioContext,
                               analyser, vadLoops>>
      ]_vars

\* C20: in push-to-talk mode and with a capture stream, after setPTT(active)
\* the audio tracks are enabled exactly when active is true.
C20_PushToTalkGate ==
    [][ \A active \in BOOLEAN :
            (ptt[Self] /\ localStream[Self] /\ SetPTT(Self, active)) =>
                /\ trackEnabled'[Self] = active
                /\ isPTTActive'[Self] = active
      ]_vars

\* push-to-talk mode with voice enabled, the gate open and the tracks enabled
C20_Witness ==
    /\ ptt[Self] /\ enabled[Self] /\ localStream[Self]
    /\ isPTTActive[Self] /\ trackEnabled[Self]

\* the invocations of callback fn among the calls of a step
CallsOf(calls, fn) == SelectSeq(calls, LAMBDA c : c.fn = fn)

\* C21: a frame of the VAD loop that is evaluated invokes onVolumeUpdate
\* exactly once, and invokes onSpeakingChange only when isSpeaking after the
\* frame differs from isSpeaking before it, once and with the new value; a
\* frame that is not evaluated invokes neither.
C21_SpeakingEdgeVolumeEveryFrame ==
    [][ \A avg \in Levels, s \in Sensitivities, vad \in BOOLEAN :
            VadTick(Self, avg, s, vad) =>
                LET calls == last'.calls
                    changes == CallsOf(calls, "onSpeakingChange")
                IN IF enabled[Self] /\ analyser[Self]
                   THEN /\ Len(CallsOf(calls, "onVolumeUpdate")) = 1
                        /\ Len(changes) =
                               (IF isSpeaking'[Self] # isSpeaking[Self] THEN 1 ELSE 0)
                        /\ \A i \in DOMAIN changes : changes[i].arg = isSpeaking'[Self]
                   ELSE calls = <<>>
      ]_vars

\* a frame found the speaker silent again: the falling edge was reported
C21_Witness ==
    /\ ~isSpeaking[Self]
    /\ Len(last.calls) = 2
    /\ last.calls[1].fn = "onSpeakingChange" /\ last.calls[1].arg = FALSE
    /\ last.calls[2].fn = "onVolumeUpdate"

\* the threshold the specification gives for sensitivity s (in tenths), in
\* thousandths: base_threshold * (1 + (1 - sensitivity))
SpecifiedThreshold(s) == (vadThreshold * (10 + (10 - s))) \div 10

\* C24: every evaluated frame compares the level with
\* base_threshold * (1 + (1 - sensitivity)), whatever the configured
\* sensitivity in [0,1] (twice the base at 0, the base at 1): with voice
\* activation the speaker counts as speaking exactly above it, in push-to-talk
\* mode exactly with the gate active and above half of it.
C24_ThresholdFromSensitivity ==
    [][ \A avg \in Levels, s \in Sensitivities :
            (enabled[Self] /\ analyser[Self] /\ VadTick(Self, avg, s, TRUE)) =>
                isSpeaking'[Self] =
                    IF ptt[Self]
                    THEN isPTTActive[Self] /\ 2 * avg > SpecifiedThreshold(s)
                    ELSE avg > SpecifiedThreshold(s)
      ]_vars

\* C22: for a fixed maxDistance > 0 and a fixed master volume, the target that
\* updateSpatialAudio sets on the gain node of a peer is 0 at every distance
\* >= maxDistance, and is not above the target a call at a nearer distance
\* (>= 0) has set.
C22_GainMonotone ==
    [][ \A p \in PeerIds, distance \in 0..MaxDistance, maxDistance \in 1..MaxDistance,
           v \in Volumes :
            (p \in gains[Self] /\ UpdateSpatialAudio(Self, p, distance, maxDistance, v)) =>
                /\ distance >= maxDistance => gainTarget'[Self][p] = 0
                /\ \A nearer \in 0..distance :
                       gainTarget[Self][p] = VolumeOf[nearer, maxDistance, v] =>
                           gainTarget'[Self][p] <= gainTarget[Self][p]
      ]_vars

\* a peer heard at part of its full volume: inside the range, not at distance 0
C22_Witness ==
    \E p \in gains[Self] : gainTarget[Self][p] > 0 /\ gainTarget[Self][p] < FullGain

\* C23: updateSpatialAudio sets the target of the peer's gain node to
\* max(0, 1 - (distance/maxDistance)^0.8) times the configured master volume,
\* whatever the master volume in [0,1]: 0 when the master volume is 0, and
\* always within [0,1].
C23_TargetIsFalloffTimesVolume ==
    [][ \A p \in PeerIds, distance \in 0..MaxDistance, maxDistance \in 1..MaxDistance,
           v \in Volumes :
            (p \in gains[Self] /\ UpdateSpatialAudio(Self, p, distance, maxDistance, v)) =>
                /\ gainTarget'[Self][p] = Falloff(distance, maxDistance) * v
                /\ v = 0 => gainTarget'[Self][p] = 0
                /\ gainTarget'[Self][p] \in 0..FullGain
      ]_vars

\* the step of connection k applies a remote description that brings the
\* remote track
TrackArrives(k) ==
    /\ k \in DOMAIN pcs /\ pcs[k].chain # <<>>
    /\ Accepts(Head(pcs[k].chain).kind, pcs[k].sig)
    /\ FiresTrack(Head(pcs[k].chain))
    /\ ExecHead(k)

\* C25: every arrival of a remote track for peer p, the first one or a
\* repeated one, leaves exactly one playback element tracked for p and exactly
\* one element with a stream attached (the one tracked before was released),
\* and when an audio context exists a gain node is mapped to p; at all times
\* the elements with a stream attached are the tracked ones, one per peer.
C25_OneElementPerPeer ==
    [][ /\ \A k \in DOMAIN pcs :
               TrackArrives(k) =>
                   LET u == pcs[k].owner
                       p == pcs[k].peer
                   IN /\ p \in audioElements'[u]
                      /\ liveAudio'[u][p] = 1
                      /\ audioContext[u] => p \in gains'[u]
        /\ \A u \in Instances, p \in PeerIds :
               liveAudio'[u][p] = (IF p \in audioElements'[u] THEN 1 ELSE 0)
      ]_vars

\* two offers were applied in a row to the same connection (both answers are
\* still to be made): the track arrived twice, one element is attached
C25_Witness ==
    \E k \in DOMAIN pcs :
        /\ IsOpen(k)
        /\ Len(pcs[k].chain) = 2
        /\ \A i \in 1..2 : pcs[k].chain[i].kind = "createAnswer"
        /\ pcs[k].peer \in audioElements[pcs[k].owner]
        /\ pcs[k].peer \in gains[pcs[k].owner]
        /\ liveAudio[pcs[k].owner][pcs[k].peer] = 1

\* C26: an answer is applied only to the connection whose offer it answers:
\* when handleSignal hands an answer to setRemoteDescription on the connection
\* the Registry holds for its sender (one that waits for an answer, with
\* nothing else pending, so that it is applied), that connection is the one
\* that sent the offer the answer was made for, also after the first
\* connection to the sender was dropped and a second one made.
C26_AnswerForItsOffer ==
    [][ \A v \in Instances, e \in net, dup \in BOOLEAN :
            LET k == peers[v][e.from]
            IN (/\ e.type = "answer" /\ enabled[v]
                /\ k # 0 /\ pcs[k].sig = "have-local-offer" /\ pcs[k].chain = <<>>
                /\ Deliver(v, e, dup)) =>
                   e.re = k
      ]_vars

\* the offer of connection k is on its way: still being made, or in the
\* transport
OfferUnderway(k) ==
    \/ /\ pcs[k].chain # <<>>
       /\ Head(pcs[k].chain).kind \in {"createOffer", "sLDoffer"}
       /\ signalSender[pcs[k].owner] = "relay"
    \/ \E e \in net : e.type = "offer" /\ e.pc = k

\* both sides called connectToPeer for each other, and neither offer has
\* arrived yet
Glare ==
    /\ Len(pcs) = 2
    /\ pcs[1].owner # pcs[2].owner
    /\ \A k \in DOMAIN pcs :
           /\ peers[pcs[k].owner][pcs[k].peer] = k
           /\ ~pcs[k].remote
           /\ \A i \in DOMAIN pcs[k].chain : pcs[k].chain[i].kind # "sRDoffer"
           /\ OfferUnderway(k)

\* each side holds a connection for the other one, and every connection that
\* is not closed is stable
BothStable ==
    /\ \A u \in Instances : \E p \in PeerIds : peers[u][p] # 0
    /\ \A k \in DOMAIN pcs : IsOpen(k) => pcs[k].sig = "stable"

\* C27: once both sides have called connectToPeer for each other before either
\* offer arrived, and with every envelope delivered and neither side
\* disconnecting or disabling, both sessions become stable and stay stable.
C27_GlareConverges == Glare ~> []BothStable

\* after a glare both sides answered the other's offer and came to rest (an
\* answer from each side is in the transport, so each side was sent an offer,
\* and an offer is only made by connectToPeer on a side that had no connection
\* yet)
C27_Witness ==
    /\ Len(pcs) = 2
    /\ \A u \in Instances : \E e \in net : e.type = "answer" /\ e.from = u
    /\ \A k \in DOMAIN pcs :
           /\ pcs[k].sig = "stable" /\ pcs[k].local /\ pcs[k].remote
           /\ pcs[k].chain = <<>>

\* C28: every connection ever created is closed or is the entry the Registry
\* of its owner holds for its peer; the Registry holds no closed connection
\* and only connections made for that owner and that peer.
C28_NoOrphan ==
    /\ \A k \in DOMAIN pcs :
           IsOpen(k) => peers[pcs[k].owner][pcs[k].peer] = k
    /\ \A u \in Instances, p \in PeerIds :
           peers[u][p] # 0 =>
               /\ peers[u][p] \in DOMAIN pcs
               /\ IsOpen(peers[u][p])
               /\ pcs[peers[u][p]].owner = u /\ pcs[peers[u][p]].peer = p

\* a connection that was dropped while a handler was suspended on it, and the
\* connection made for the same peer afterwards, registered and negotiating
C28_Witness ==
    \E k, j \in DOMAIN pcs :
        /\ k < j /\ pcs[k].owner = pcs[j].owner
        /\ ~IsOpen(k) /\ pcs[k].chain # <<>>
        /\ IsOpen(j) /\ pcs[j].sig = "have-local-offer"
        /\ \A q \in PeerIds \ {pcs[j].peer} : peers[pcs[j].owner][q] = 0

\* C29: while voice is disabled (before the first successful init, after a
\* failed init, after disable(), with handlers resuming and signals arriving
\* meanwhile) the Registry, the gain map and the playback-element map are
\* empty, and no step sends an envelope.
C29_DisabledIsEmpty ==
    [][ /\ \A u \in Instances :
               /\ ~enabled[u] =>
                      (peers[u] = NoPeers /\ gains[u] = {} /\ audioElements[u] = {})
               /\ ~enabled'[u] =>
                      (peers'[u] = NoPeers /\ gains'[u] = {} /\ audioElements'[u] = {})
        /\ ~enabled[Self] => (last'.sent = <<>> /\ net' = net)
      ]_vars

\* disabled, with the stream of a failed init left over, when a handler
\* resumed on a connection that disable() had closed
C29_Witness ==
    /\ ~enabled[Self] /\ localStream[Self]
    /\ last.res = "aborted"

\* C30: every peer id that has a gain node or a tracked playback element has
\* a Registry entry.
C30_AudioKeysRegistered ==
    \A u \in Instances :
        \A p \in gains[u] \cup audioElements[u] : peers[u][p] # 0

\* one peer heard through its element and gain node, another one registered
\* whose track has not arrived
C30_Witness ==
    \E p, q \in PeerIds :
        /\ p \in gains[Self] /\ p \in audioElements[Self]
        /\ peers[Self][q] # 0 /\ q \notin audioElements[Self] /\ q \notin gains[Self]

\* C31: at most one voice-activity evaluation loop is scheduled at any time,
\* so that one animation frame runs check() once and reports the volume once;
\* also after init() has succeeded twice, and after disable() followed by
\* init() before the frame of the old loop has run.
C31_AtMostOneLoop ==
    \A u \in Instances : vadLoops[u] <= 1

\* C32: whenever push-to-talk is the configured mode and capture is active
\* (voice enabled, with a capture stream), the audio tracks are enabled exactly
\* when isPTTActive is true; so also right after init() succeeds with
\* isPTTActive set beforehand.
C32_TracksMirrorPTT ==
    \A u \in Instances :
        (ptt[u] /\ enabled[u] /\ localStream[u]) => trackEnabled[u] = isPTTActive[u]

\* C33: after any operation the value delivered last through onSpeakingChange
\* (false when none was) is the current isSpeaking.  Both are false at first
\* and a frame delivers only the value it has just stored, so this is: every
\* operation that changes isSpeaking delivers the new value through
\* onSpeakingChange; in particular disable() called while speaking does.
C33_SpeakingChangeDelivered ==
    [][ \A u \in Instances :
            isSpeaking'[u] # isSpeaking[u] =>
                \E i \in DOMAIN last'.calls :
                    last'.calls[i] = Call("onSpeakingChange", isSpeaking'[u])
      ]_vars

\* connection k has completed its negotiation: a local and a remote
\* description are applied and nothing is on offer
Negotiated(k) == pcs[k].sig = "stable" /\ pcs[k].local /\ pcs[k].remote

\* C34: every peer id that getConnectedPeers() returns has a session whose
\* negotiation has completed; a peer that is only registered, its offer made
\* and not answered, is not returned.
C34_ReportedAreConnected ==
    \A u \in Instances :
        \A p \in GetConnectedPeers(u) : Negotiated(peers[u][p])

\* C35: a voice-activity frame with level L and effective threshold T sets
\* isSpeaking to (isPTTActive and L > T/2) in push-to-talk mode, to (L > T)
\* otherwise unless voice-activity detection is switched off, and leaves it as
\* it was with push-to-talk off and voice-activity detection switched off.
C35_FrameDecision ==
    [][ \A L \in Levels, s \in Sensitivities, vad \in BOOLEAN :
            (enabled[Self] /\ analyser[Self] /\ VadTick(Self, L, s, vad)) =>
                LET T == Threshold(s)
                IN /\ ptt[Self] => (isSpeaking'[Self] <=> (isPTTActive[Self] /\ 2 * L > T))
                   /\ (~ptt[Self] /\ vad) => (isSpeaking'[Self] <=> L > T)
                   /\ (~ptt[Self] /\ ~vad) => (isSpeaking'[Self] <=> isSpeaking[Self])
      ]_vars

\* push-to-talk held, and a frame whose level is below every threshold but
\* above half of one has set isSpeaking
C35_Witness ==
    /\ enabled[Self] /\ ptt[Self] /\ isPTTActive[Self] /\ isSpeaking[Self]
    /\ last.calls # <<>>
    /\ last.calls[Len(last.calls)] = Call("onVolumeUpdate", 15)

\* C36: the gates of the bot are time-gated.  Whatever the roll, shouldBotSing
\* returns false while actionTimer <= 300 and shouldBotSpeak returns false
\* while thinkTimer <= 500; updateBot raises both timers by exactly 1; so when
\* shouldBotSing returns true at least 301 updateBot calls were made since
\* resetBotActionTimer, and when shouldBotSpeak returns true at least 501 since
\* resetBotThinkTimer.
C36_TimeGated ==
    [][ /\ UpdateBot =>
               /\ bot'.actionTimer = bot.actionTimer + 1
               /\ bot'.thinkTimer = bot.thinkTimer + 1
        /\ \A roll \in Rolls :
               /\ (bot.actionTimer <= 300 /\ ShouldBotSingCall(roll)) => ~botLog'.ret
               /\ (bot.thinkTimer <= 500 /\ ShouldBotSpeakCall(roll)) => ~botLog'.ret
               /\ (ShouldBotSingCall(roll) /\ botLog'.ret) => botLog.sinceAction >= 301
               /\ (ShouldBotSpeakCall(roll) /\ botLog'.ret) => botLog.sinceThink >= 501
      ]_vars

\* the bot was told to sing at the 301st update after resetBotActionTimer,
\* while its think timer was still short of its own gate
C36_Witness ==
    /\ botLog.ret
    /\ botLog.sinceAction = 301 /\ bot.actionTimer = 301
    /\ bot.thinkTimer > 301 /\ bot.thinkTimer <= 500

====
